---- MODULE Spec2Model ----
(***************************************************************************)
(* A model of the Recharge API client: the base class RechargeResource     *)
(* (scope checking with its allow-list, the four HTTP helpers with their   *)
(* 429 handling) and the resource classes built on it (AddressResource,    *)
(* ProductResource, DiscountResource, AsyncBatchResource).                  *)
(*                                                                         *)
(* One resource instance is shared by the callers in Threads.  The remote  *)
(* server is the environment: it answers every request with some status,   *)
(* or the transport raises.  The server is taken to send the               *)
(* X-Recharge-Limit header and, where the code parses it, a JSON body.     *)
(***************************************************************************)
EXTENDS Integers, Sequences, FiniteSets, TLC

\* ------------------------------------------------------------------ bounds
\* Requests one call may issue before the model stops following it.
MaxRequests == 3
\* Calls started on the instance in one behaviour.
MaxCalls == 2

\* ------------------------------------------------------- program constants
\* The status the helpers retry on.
TooManyRequests == 429
\* time.sleep(1)
SleepSeconds == 1

\* ------------------------------------------------------------- input sets
Threads == {"t1", "t2"}
Ids == {"id1", "id2"}
NoId == ""
None == "None"
Bodies == {None, "body"}
Queries == {None, "query"}
Statuses == {200, 429, 500}
Resources == {"AddressResource", "ProductResource", "DiscountResource", "AsyncBatchResource"}

\* ---------------------------------------------------------- method tables
M(res, name, check, key, keyHasId, scopes, helper, path, hasId, hasBody, hasQuery) ==
    [res |-> res, name |-> name, check |-> check, key |-> key, keyHasId |-> keyHasId,
     scopes |-> scopes, helper |-> helper, path |-> path,
     hasId |-> hasId, hasBody |-> hasBody, hasQuery |-> hasQuery]

AddressMethods ==
    LET R == "AddressResource" IN
    { M(R, "create", TRUE, "POST /customers/:customer_id/addresses", FALSE,
        <<"write_customers">>, "http_post", "customers/{id}/addresses", TRUE, TRUE, FALSE),
      M(R, "get", TRUE, "GET addresses/:address_id", FALSE,
        <<"read_customers">>, "http_get", "addresses/{id}", TRUE, FALSE, FALSE),
      M(R, "update", TRUE, "PUT addresses/:id", FALSE,
        <<"write_customers">>, "http_put", "addresses/{id}", TRUE, TRUE, FALSE),
      M(R, "delete", TRUE, "DELETE addresses/:address_id", FALSE,
        <<"write_customers">>, "http_delete", "addresses/{id}", TRUE, FALSE, FALSE),
      M(R, "list", TRUE, "GET /customers/:customer_id/addresses", FALSE,
        <<"read_customers">>, "http_get", "customers/{id}/addresses", TRUE, FALSE, TRUE),
      M(R, "count", TRUE, "GET /addresses/count", FALSE,
        <<"read_customers">>, "http_get", "addresses/count", FALSE, FALSE, TRUE),
      M(R, "validate", FALSE, "", FALSE,
        <<>>, "http_post", "addresses/validate_address", FALSE, TRUE, FALSE),
      M(R, "apply_discount", TRUE, "POST /addresses/:address_id/apply_discount", FALSE,
        <<"write_discounts">>, "http_post", "addresses/{id}/apply_discount", TRUE, TRUE, FALSE),
      M(R, "remove_discount", TRUE, "POST /addresses/:address_id/remove_discount", FALSE,
        <<"write_discounts">>, "http_post", "addresses/{id}/remove_discount", TRUE, FALSE, FALSE) }

ProductMethods ==
    LET R == "ProductResource" IN
    { M(R, "create", TRUE, "POST /products", FALSE,
        <<"write_products">>, "http_post", "products", FALSE, TRUE, FALSE),
      M(R, "get", TRUE, "GET /products/{product_id}", TRUE,
        <<"read_products">>, "http_get", "products/{id}", TRUE, FALSE, FALSE),
      M(R, "update", TRUE, "PUT /products/{product_id}", TRUE,
        <<"write_products">>, "http_put", "products/{id}", TRUE, TRUE, FALSE),
      M(R, "delete", TRUE, "DELETE /products/{product_id}", TRUE,
        <<"write_products">>, "http_delete", "products/{id}", TRUE, FALSE, FALSE),
      M(R, "list", TRUE, "GET /products", FALSE,
        <<"read_products">>, "http_get", "products", FALSE, FALSE, TRUE),
      M(R, "count", TRUE, "GET /products/count", FALSE,
        <<"read_products">>, "http_get", "products/count", FALSE, FALSE, FALSE) }

DiscountMethods ==
    LET R == "DiscountResource" IN
    { M(R, "create", TRUE, "POST /discounts", FALSE,
        <<"write_discounts">>, "_http_post", "discounts", FALSE, TRUE, FALSE),
      M(R, "get", TRUE, "GET /discounts/:discount_id", FALSE,
        <<"read_discounts">>, "_http_get", "discounts/{id}", TRUE, FALSE, FALSE),
      M(R, "update", TRUE, "PUT /discounts/:discount_id", FALSE,
        <<"write_discounts">>, "_http_put", "discounts/{id}", TRUE, TRUE, FALSE),
      M(R, "delete", TRUE, "DELETE /discounts/:discount_id", FALSE,
        <<"write_discounts">>, "_http_delete", "discounts/{id}", TRUE, FALSE, FALSE),
      M(R, "list", TRUE, "GET /discounts", FALSE,
        <<"read_discounts">>, "_http_get", "discounts", FALSE, FALSE, TRUE) }

AsyncBatchMethods ==
    LET R == "AsyncBatchResource" IN
    { M(R, "create", TRUE, "POST /async_batches", FALSE,
        <<"write_batches">>, "_http_post", "async_batches", FALSE, TRUE, FALSE),
      M(R, "create_task", TRUE, "POST /async_batches/:batch_id/tasks", FALSE,
        <<"write_batches">>, "_http_post", "async_batches/{id}/tasks", TRUE, TRUE, FALSE),
      M(R, "get", TRUE, "GET /async_batches/:batch_id", FALSE,
        <<"read_batches">>, "_http_get", "async_batches/{id}", TRUE, FALSE, FALSE),
      M(R, "list", TRUE, "GET /async_batches", FALSE,
        <<"read_batches">>, "_http_get", "async_batches", FALSE, FALSE, FALSE),
      M(R, "list_tasks", TRUE, "GET /async_batches/:batch_id/tasks", FALSE,
        <<"read_batches">>, "_http_get", "async_batches/{id}/tasks", TRUE, FALSE, FALSE),
      M(R, "process", TRUE, "POST /async_batches/:batch_id/process", FALSE,
        <<"write_batches">>, "_http_post", "async_batches/{id}/process", TRUE, FALSE, FALSE) }

MethodsOf(res) ==
    CASE res = "AddressResource" -> AddressMethods
      [] res = "ProductResource" -> ProductMethods
      [] res = "DiscountResource" -> DiscountMethods
      [] res = "AsyncBatchResource" -> AsyncBatchMethods

\* The v2 resources (discounts, async batches) call underscore-prefixed
\* helpers of their base class, taken to be the helpers of the same name.
V2Helper(helper) ==
    CASE helper = "_http_get" -> "http_get"
      [] helper = "_http_put" -> "http_put"
      [] helper = "_http_post" -> "http_post"
      [] helper = "_http_delete" -> "http_delete"
      [] OTHER -> helper

\* The requests function each helper calls.
HelperVerb(helper) ==
    CASE V2Helper(helper) = "http_get" -> "GET"
      [] V2Helper(helper) = "http_put" -> "PUT"
      [] V2Helper(helper) = "http_post" -> "POST"
      [] V2Helper(helper) = "http_delete" -> "DELETE"

Verbs == {"GET", "PUT", "POST", "DELETE"}

\* The endpoint string a method hands to check_scopes: a fixed template, or,
\* where the f-string interpolates the argument, one string per ID.
Endpoint(m, id) == [key |-> m.key, id |-> IF m.keyHasId THEN id ELSE NoId]

\* The URL a method builds: base_url, the path and the interpolated ID.
Url(m, id) == [path |-> m.path, id |-> IF m.hasId THEN id ELSE NoId]

ArgIds(m) == IF m.hasId THEN Ids ELSE {NoId}
ArgBodies(m) == IF m.hasBody THEN Bodies ELSE {None}
ArgQueries(m) == IF m.hasQuery THEN Queries ELSE {None}

\* Scopes the methods of a resource name.
ScopesOf(res) == UNION {{m.scopes[i] : i \in DOMAIN m.scopes} : m \in MethodsOf(res)}

\* The same scopes as one list.
ScopeSeqOf(res) ==
    CASE res = "AddressResource" -> <<"read_customers", "write_customers", "write_discounts">>
      [] res = "ProductResource" -> <<"read_products", "write_products">>
      [] res = "DiscountResource" -> <<"read_discounts", "write_discounts">>
      [] res = "AsyncBatchResource" -> <<"read_batches", "write_batches">>

EndpointsOf(res) == {Endpoint(m, id) : m \in {x \in MethodsOf(res) : x.check}, id \in Ids}

\* self.scopes as given to the constructor: None, or a list of scopes.
NoneScopes == [isNone |-> TRUE, list |-> <<>>]
ScopeList(l) == [isNone |-> FALSE, list |-> l]

\* The required-scope lists a direct check_scopes call is given.
RequiredChoices(res) == {<<s>> : s \in ScopesOf(res)} \cup {ScopeSeqOf(res)}

\* The scope lists a token is constructed with.
TokenChoices(res) ==
    {NoneScopes, ScopeList(<<>>)} \cup {ScopeList(l) : l \in RequiredChoices(res)}

\* ------------------------------------------------------------------ state
VARIABLES
    resource,           \* the class of the instance
    scopes,             \* self.scopes
    allowed_endpoints,  \* self.allowed_endpoints
    ncalls,             \* calls started so far
    pc,                 \* where each caller is in its call
    call,               \* what each caller called
    args,               \* the arguments of each caller's current helper frame
    reqs,               \* the requests each caller's call has issued, in order
    resps,              \* the statuses each caller's call has received, in order
    trace,              \* the order of each call's requests, responses and sleeps
    slept,              \* the seconds each call has spent in time.sleep
    result              \* how each caller's call ended

vars == <<resource, scopes, allowed_endpoints, ncalls, pc, call, args, reqs, resps,
          trace, slept, result>>

shared == <<resource, scopes, allowed_endpoints>>
http == <<args, reqs, resps, trace, slept>>

NoEndpoint == [key |-> "", id |-> NoId]
NoUrl == [path |-> "", id |-> NoId]
NoCall == [kind |-> "none", method |-> "", checks |-> FALSE, endpoint |-> NoEndpoint,
           required |-> <<>>, check |-> "none"]
NoArgs == [verb |-> "", url |-> NoUrl, body |-> None, query |-> None]
NoResult == [kind |-> "none", form |-> "", of |-> 0, exc |-> ""]

Returned(form, n) == [kind |-> "return", form |-> form, of |-> n, exc |-> ""]
Raised(exc) == [kind |-> "raise", form |-> "", of |-> 0, exc |-> exc]

Init ==
    /\ resource \in Resources
    /\ scopes \in TokenChoices(resource)
    /\ allowed_endpoints = <<>>
    /\ ncalls = 0
    /\ pc = [t \in Threads |-> "idle"]
    /\ call = [t \in Threads |-> NoCall]
    /\ args = [t \in Threads |-> NoArgs]
    /\ reqs = [t \in Threads |-> <<>>]
    /\ resps = [t \in Threads |-> <<>>]
    /\ trace = [t \in Threads |-> <<>>]
    /\ slept = [t \in Threads |-> 0]
    /\ result = [t \in Threads |-> NoResult]

\* ------------------------------------------------------- pure functions
Elems(l) == {l[i] : i \in DOMAIN l}

\* (mutant) the test compares the endpoint's template and forgets the ID
InAllowed_KeyOnly(endpoint, allowed) == endpoint.key \in {e.key : e \in Elems(allowed)}

\* (mutant) the test starts at the second entry of the list
InAllowed_SkipsFirst(endpoint, allowed) ==
    endpoint \in Elems(SubSeq(allowed, 2, Len(allowed)))

\* endpoint in self.allowed_endpoints
InAllowed(endpoint, allowed) == endpoint \in Elems(allowed)

\* not self.scopes: None and the empty list are both falsy
NoScopes(sc) == sc.isNone \/ sc.list = <<>>

\* (mutant) the loop looks at the first required scope only
MissingScopes_FirstOnly(required, sc) ==
    SelectSeq(SubSeq(required, 1, 1), LAMBDA s : s \notin Elems(sc.list))

\* (mutant) the loop looks at the last required scope only
MissingScopes_LastOnly(required, sc) ==
    SelectSeq(SubSeq(required, Len(required), Len(required)), LAMBDA s : s \notin Elems(sc.list))

\* the loop that collects the required scopes absent from the token's
MissingScopes(required, sc) ==
    SelectSeq(required, LAMBDA s : s \notin Elems(sc.list))

\* What check_scopes does once the endpoint was found not to be cached:
\* "raise" (no scopes, or a missing scope) or "append".
CheckOutcome(required, sc) ==
    IF NoScopes(sc) THEN "raise"
    ELSE IF MissingScopes(required, sc) # <<>> THEN "raise"
    ELSE "append"

\* The arguments of the recursive call each helper makes on a 429.
RetryArgs(a) ==
    CASE a.verb = "GET" -> [a EXCEPT !.query = None]
      [] a.verb = "PUT" -> [a EXCEPT !.query = None]
      [] a.verb = "POST" -> [a EXCEPT !.query = None]
      [] a.verb = "DELETE" -> [a EXCEPT !.body = None]

\* (mutant) every error status from 429 up is retried
Retries_ServerErrors(verb, status) == status >= TooManyRequests

\* (mutant) everything but a 200 is retried
Retries_AllButOk(verb, status) == status # 200

\* (mutant) http_delete returns a 429 response instead of retrying it
Retries_NotDelete(verb, status) == verb # "DELETE" /\ status = TooManyRequests

\* Whether a helper retries a response of this status.
Retries(verb, status) == status = TooManyRequests

\* (mutant) http_delete sleeps as well
SleepsBeforeRetry_All(verb) == TRUE

\* Whether a helper sleeps before its retry.
SleepsBeforeRetry(verb) == verb \in {"GET", "PUT", "POST"}

\* (mutant) http_delete parses the body as the other helpers do
ReturnForm_AlwaysJson(verb) == "json"

\* What a helper returns for its final response: response.json(), or the
\* response object itself.
ReturnForm(verb) == IF verb = "DELETE" THEN "response" ELSE "json"

\* ---------------------------------------------------------------- actions
Quiet(t) == \A u \in Threads \ {t} : pc[u] = "idle"

Begin(t, c, a, first) ==
    /\ pc[t] = "idle"
    /\ ncalls' = ncalls + 1
    /\ pc' = [pc EXCEPT ![t] = first]
    /\ call' = [call EXCEPT ![t] = c]
    /\ args' = [args EXCEPT ![t] = a]
    /\ UNCHANGED <<shared, reqs, resps, trace, slept, result>>

\* A caller calls check_scopes(endpoint, required) itself.
CallCheckScopes(t) ==
    \E e \in EndpointsOf(resource), req \in RequiredChoices(resource) :
        Begin(t, [kind |-> "check_scopes", method |-> "", checks |-> TRUE,
                  endpoint |-> e, required |-> req, check |-> "none"],
              NoArgs, "check_in")

\* (mutant) the method goes to its helper without calling check_scopes
CallMethod_SkipCheck(t) ==
    \E m \in MethodsOf(resource) :
    \E id \in ArgIds(m), body \in ArgBodies(m), query \in ArgQueries(m) :
        Begin(t, [kind |-> "method", method |-> m.name, checks |-> m.check,
                  endpoint |-> IF m.check THEN Endpoint(m, id) ELSE NoEndpoint,
                  required |-> m.scopes, check |-> "none"],
              [verb |-> HelperVerb(m.helper), url |-> Url(m, id),
               body |-> body, query |-> query],
              "send")

\* A caller calls a method of the resource: the method calls check_scopes
\* (all but AddressResource.validate do), builds its URL and calls a helper.
CallMethod(t) ==
    \E m \in MethodsOf(resource) :
    \E id \in ArgIds(m), body \in ArgBodies(m), query \in ArgQueries(m) :
        Begin(t, [kind |-> "method", method |-> m.name, checks |-> m.check,
                  endpoint |-> IF m.check THEN Endpoint(m, id) ELSE NoEndpoint,
                  required |-> m.scopes, check |-> "none"],
              [verb |-> HelperVerb(m.helper), url |-> Url(m, id),
               body |-> body, query |-> query],
              IF m.check THEN "check_in" ELSE "send")

\* A caller calls one of http_get, http_put, http_post, http_delete itself.
CallHttp(t) ==
    \E verb \in Verbs :
    \E body \in (IF verb = "GET" THEN {None} ELSE Bodies),
       query \in (IF verb = "DELETE" THEN {None} ELSE Queries) :
        Begin(t, [NoCall EXCEPT !.kind = "http"],
              [verb |-> verb, url |-> [path |-> "url", id |-> NoId],
               body |-> body, query |-> query],
              "send")

\* check_scopes has returned: a direct call is over, a method goes on to
\* its helper.
AfterCheck(t, how) ==
    /\ call' = [call EXCEPT ![t].check = how]
    /\ IF call[t].kind = "check_scopes"
       THEN /\ pc' = [pc EXCEPT ![t] = "done"]
            /\ result' = [result EXCEPT ![t] = Returned("None", 0)]
       ELSE /\ pc' = [pc EXCEPT ![t] = "send"]
            /\ UNCHANGED result

\* check_scopes, the test of the allow-list.
CheckMembership(t) ==
    /\ pc[t] = "check_in"
    /\ IF InAllowed(call[t].endpoint, allowed_endpoints)
       THEN AfterCheck(t, "cached")
       ELSE /\ pc' = [pc EXCEPT ![t] = "check_eval"]
            /\ UNCHANGED <<call, result>>
    /\ UNCHANGED <<shared, ncalls, http>>

\* check_scopes, from the test of self.scopes to the raise or the append.
CheckEvaluate(t) ==
    /\ pc[t] = "check_eval"
    /\ IF CheckOutcome(call[t].required, scopes) = "raise"
       THEN /\ pc' = [pc EXCEPT ![t] = "done"]
            /\ call' = [call EXCEPT ![t].check = "raised"]
            /\ result' = [result EXCEPT ![t] = Raised("ValueError")]
            /\ UNCHANGED allowed_endpoints
       ELSE /\ allowed_endpoints' = Append(allowed_endpoints, call[t].endpoint)
            /\ AfterCheck(t, "approved")
    /\ UNCHANGED <<resource, scopes, ncalls, http>>

\* requests.get / put / post / delete is called with the frame's arguments.
SendRequest(t) ==
    /\ pc[t] = "send"
    /\ Len(reqs[t]) < MaxRequests
    /\ reqs' = [reqs EXCEPT ![t] = Append(@, args[t])]
    /\ trace' = [trace EXCEPT ![t] = Append(@, "request")]
    /\ pc' = [pc EXCEPT ![t] = "recv"]
    /\ UNCHANGED <<shared, ncalls, call, args, resps, slept, result>>

\* The server answers.
Respond(t) ==
    /\ pc[t] = "recv"
    /\ \E status \in Statuses :
        resps' = [resps EXCEPT ![t] = Append(@, status)]
    /\ trace' = [trace EXCEPT ![t] = Append(@, "response")]
    /\ pc' = [pc EXCEPT ![t] = "handle"]
    /\ UNCHANGED <<shared, ncalls, call, args, reqs, slept, result>>

\* The requests call raises instead (connection error, timeout): nothing in
\* the helpers or the methods catches it.
NetworkError(t) ==
    /\ pc[t] = "recv"
    /\ trace' = [trace EXCEPT ![t] = Append(@, "error")]
    /\ pc' = [pc EXCEPT ![t] = "done"]
    /\ result' = [result EXCEPT ![t] = Raised("RequestException")]
    /\ UNCHANGED <<shared, ncalls, call, args, reqs, resps, slept>>

\* The helper looks at the status: a 429 leads to the recursive call (after
\* the sleep, where there is one), anything else is returned.
HandleResponse(t) ==
    /\ pc[t] = "handle"
    /\ LET status == resps[t][Len(resps[t])] IN
       IF Retries(args[t].verb, status)
       THEN /\ IF SleepsBeforeRetry(args[t].verb)
               THEN /\ pc' = [pc EXCEPT ![t] = "sleep"]
                    /\ UNCHANGED args
               ELSE /\ pc' = [pc EXCEPT ![t] = "send"]
                    /\ args' = [args EXCEPT ![t] = RetryArgs(@)]
            /\ UNCHANGED result
       ELSE /\ pc' = [pc EXCEPT ![t] = "done"]
            /\ result' = [result EXCEPT ![t] =
                              Returned(ReturnForm(args[t].verb), Len(resps[t]))]
            /\ UNCHANGED args
    /\ UNCHANGED <<shared, ncalls, call, reqs, resps, trace, slept>>

\* time.sleep(1), then the recursive call.
Sleep(t) ==
    /\ pc[t] = "sleep"
    /\ trace' = [trace EXCEPT ![t] = Append(@, "sleep")]
    /\ slept' = [slept EXCEPT ![t] = @ + SleepSeconds]
    /\ args' = [args EXCEPT ![t] = RetryArgs(@)]
    /\ pc' = [pc EXCEPT ![t] = "send"]
    /\ UNCHANGED <<shared, ncalls, call, reqs, resps, result>>

\* The caller has its result and is free for another call.
Finish(t) ==
    /\ pc[t] = "done"
    /\ pc' = [pc EXCEPT ![t] = "idle"]
    /\ call' = [call EXCEPT ![t] = NoCall]
    /\ args' = [args EXCEPT ![t] = NoArgs]
    /\ reqs' = [reqs EXCEPT ![t] = <<>>]
    /\ resps' = [resps EXCEPT ![t] = <<>>]
    /\ trace' = [trace EXCEPT ![t] = <<>>]
    /\ slept' = [slept EXCEPT ![t] = 0]
    /\ result' = [result EXCEPT ![t] = NoResult]
    /\ UNCHANGED <<shared, ncalls>>

Start(t) == CallCheckScopes(t) \/ CallMethod(t) \/ CallHttp(t)

Step(t) ==
    \/ CheckMembership(t)
    \/ CheckEvaluate(t)
    \/ SendRequest(t)
    \/ Respond(t)
    \/ NetworkError(t)
    \/ HandleResponse(t)
    \/ Sleep(t)
    \/ Finish(t)

\* One caller at a time: a call starts only when no other call is under way.
Next == \E t \in Threads : (ncalls < MaxCalls /\ Quiet(t) /\ Start(t)) \/ Step(t)

Spec == Init /\ [][Next]_vars

\* A caller that has its response goes on running: the helper's handling of
\* a response and its sleep are steps of the caller's own thread.  Nothing is
\* assumed of the server.
LiveSpec ==
    /\ Spec
    /\ \A t \in Threads : WF_vars(HandleResponse(t)) /\ WF_vars(Sleep(t))

\* One caller at a time that uses the resource through its methods only.
MethodNext ==
    \E t \in Threads : (ncalls < MaxCalls /\ Quiet(t) /\ CallMethod(t)) \/ Step(t)

MethodSpec == Init /\ [][MethodNext]_vars

\* Two callers in parallel, one check_scopes call each (made directly, or by
\* a method: the pairs of CallCheckScopes include every method's pair): the
\* steps of the two calls interleave.  The helpers touch no state of the
\* instance and are left out.
ConcNext ==
    \E t \in Threads :
        \/ ncalls < Cardinality(Threads) /\ CallCheckScopes(t)
        \/ CheckMembership(t)
        \/ CheckEvaluate(t)
        \/ Finish(t)

ConcSpec == Init /\ [][ConcNext]_vars

\* ------------------------------------------------------------ vocabulary
Last(l) == l[Len(l)]
Count(l, x) == Cardinality({i \in DOMAIN l : l[i] = x})
SleepingVerbs == {"GET", "PUT", "POST"}

\* The call of t has reached its helper.
InHelper(t) == call[t].kind \in {"http", "method"} /\ reqs[t] # <<>>
HasReturned(t) == pc[t] = "done" /\ result[t].kind = "return"

\* The token lacks a scope of the list, or has no scopes at all.
Lacks(required) ==
    \/ scopes.isNone
    \/ scopes.list = <<>>
    \/ \E i \in DOMAIN required : \A j \in DOMAIN scopes.list : scopes.list[j] # required[i]

C2_RaisesIffLacking ==
    \A t \in Threads :
        call[t].check \in {"raised", "approved"} =>
            /\ call[t].check = "raised" <=> Lacks(call[t].required)
            /\ call[t].check = "raised" =>
                   pc[t] = "done" /\ result[t] = Raised("ValueError")
            /\ call[t].check = "approved" =>
                   /\ result[t].kind # "raise" \/ result[t].exc # "ValueError"
                   /\ \E i \in DOMAIN allowed_endpoints :
                          allowed_endpoints[i] = call[t].endpoint

\* check_scopes raised on a token that has scopes, one of the two required
\* among them and the other not.
C2_Witness ==
    \E t \in Threads :
        /\ call[t].check = "raised"
        /\ Len(call[t].required) >= 2
        /\ \E i \in DOMAIN call[t].required : \E j \in DOMAIN scopes.list :
               scopes.list[j] = call[t].required[i]

\* ---------------------------------------------------------------- claim C3
\* C3 as stated: the cache is keyed by endpoint and scopes together, so a
\* call for an approved endpoint with other required scopes, one of which the
\* token lacks, is not served from the cache (it raises).
C3_CacheKeyedByCombination ==
    \A t \in Threads :
        call[t].check = "cached" => ~Lacks(call[t].required)

\* C3 as amended: the cache is keyed by the endpoint alone: check_scopes(e, S)
\* returns without evaluating S exactly when e was approved earlier (e is in
\* allowed_endpoints), whatever S is; a call with the same endpoint and other
\* required scopes, one of which the token lacks, returns normally.
C3_CacheKeyedByEndpoint ==
    \A t \in Threads :
        /\ call[t].check = "cached" =>
               /\ Count(allowed_endpoints, call[t].endpoint) = 1
               /\ result[t].kind # "raise" \/ result[t].exc # "ValueError"
        /\ call[t].check = "raised" => Count(allowed_endpoints, call[t].endpoint) = 0
        /\ call[t].check = "approved" => Count(allowed_endpoints, call[t].endpoint) = 1

\* A call served from the cache although the token lacks a scope it requires.
C3_Witness ==
    \E t \in Threads :
        /\ call[t].kind = "check_scopes"
        /\ call[t].check = "cached"
        /\ Lacks(call[t].required)
        /\ HasReturned(t)

\* ---------------------------------------------------------------- claim C4
\* C4 as stated: every resource method has passed check_scopes before it
\* issues a request, so that no method issues a request on a client that was
\* constructed with no scopes.
C4_EveryMethodChecksFirst ==
    \A t \in Threads :
        call[t].kind = "method" /\ reqs[t] # <<>> =>
            /\ call[t].check \in {"cached", "approved"}
            /\ ~(scopes.isNone \/ scopes.list = <<>>)

\* C4 as amended: every resource method except AddressResource.validate has
\* passed check_scopes before it issues a request, a call whose scope check
\* raises issues no request, and no method but validate issues a request on a
\* client constructed with no scopes; validate calls no check_scopes and
\* issues its request whatever the token's scopes are.
C4_MethodsButValidateCheckFirst ==
    \A t \in Threads :
        call[t].kind = "method" =>
            /\ call[t].check = "raised" => reqs[t] = <<>> /\ trace[t] = <<>>
            /\ pc[t] \in {"check_in", "check_eval"} => reqs[t] = <<>>
            /\ reqs[t] # <<>> =>
                   \/ /\ call[t].check \in {"cached", "approved"}
                      /\ ~(scopes.isNone \/ scopes.list = <<>>)
                   \/ /\ resource = "AddressResource" /\ call[t].method = "validate"
                      /\ call[t].check = "none"

\* validate has issued its request on a client constructed with no scopes.
C4_Witness ==
    \E t \in Threads :
        /\ call[t].kind = "method" /\ call[t].method = "validate"
        /\ scopes.isNone
        /\ reqs[t] # <<>>

\* ---------------------------------------------------------------- claim C5
\* C5: a resource method call that passed the scope check and whose first
\* response is not a 429 issues exactly one request and returns that response
\* without a retry or a sleep; an exception of the HTTP call ends the call,
\* raised to the caller, with no request after it.
C5_OtherFailuresPassThrough ==
    \A t \in Threads :
        call[t].kind = "method" =>
            /\ resps[t] # <<>> /\ resps[t][1] # TooManyRequests =>
                   /\ Len(reqs[t]) = 1 /\ Len(resps[t]) = 1
                   /\ trace[t] = <<"request", "response">>
                   /\ slept[t] = 0
                   /\ pc[t] \in {"handle", "done"}
                   /\ pc[t] = "done" =>
                          /\ result[t].kind = "return"
                          /\ result[t].of = 1
            /\ \A i \in DOMAIN trace[t] :
                   trace[t][i] = "error" =>
                       /\ i = Len(trace[t])
                       /\ trace[t][i - 1] = "request"
                       /\ pc[t] = "done"
                       /\ result[t] = Raised("RequestException")
            /\ result[t].exc = "RequestException" => Last(trace[t]) = "error"

\* A method call that got a 500 for its only request and returned it.
C5_Witness ==
    \E t \in Threads :
        /\ call[t].kind = "method"
        /\ call[t].check = "approved"
        /\ resps[t] = <<500>>
        /\ Len(reqs[t]) = 1
        /\ HasReturned(t)

\* ---------------------------------------------------------------- claim C6
\* C6: every request a call re-issues after a 429 carries the URL, the JSON
\* body and the query parameters of the call's first request.
C6_RetryRepeatsRequest ==
    \A t \in Threads :
        \A i \in DOMAIN reqs[t] :
            /\ reqs[t][i].url = reqs[t][1].url
            /\ reqs[t][i].body = reqs[t][1].body
            /\ reqs[t][i].query = reqs[t][1].query

\* ---------------------------------------------------------------- claim C7
\* C7: in a call of http_get, http_put or http_post every retry request is
\* immediately preceded by exactly one sleep of one second, which follows the
\* 429 response; in a call of http_delete the retry request follows the 429
\* response at once and the call never sleeps.
C7_SleepBeforeRetry ==
    \A t \in Threads :
        /\ \A i \in DOMAIN trace[t] :
               i > 1 /\ trace[t][i] = "request" =>
                   IF args[t].verb \in SleepingVerbs
                   THEN /\ trace[t][i - 1] = "sleep"
                        /\ trace[t][i - 2] = "response"
                   ELSE trace[t][i - 1] = "response"
        /\ \A i \in DOMAIN trace[t] :
               trace[t][i] = "sleep" =>
                   i > 1 /\ trace[t][i - 1] = "response" /\ args[t].verb # "DELETE"
        /\ slept[t] = SleepSeconds * Count(trace[t], "sleep")
        /\ IF args[t].verb \in SleepingVerbs
           THEN Count(trace[t], "sleep") \in {Len(reqs[t]) - 1, Len(reqs[t])}
           ELSE slept[t] = 0
        /\ \A i \in 1..(Len(reqs[t]) - 1) : resps[t][i] = TooManyRequests

\* A call of http_put that slept twice, once before each of its two retries.
C7_Witness ==
    \E t \in Threads :
        /\ args[t].verb = "PUT"
        /\ Len(reqs[t]) = 3
        /\ slept[t] = 2
        /\ trace[t] = <<"request", "response", "sleep", "request", "response", "sleep",
                        "request">>

\* ---------------------------------------------------------------- claim C8
\* C8 as stated: all four helpers return the parsed JSON body of the final
\* response, so every resource method, delete methods included, returns
\* parsed JSON and not a response object.
C8_AllReturnParsedJson ==
    \A t \in Threads :
        InHelper(t) /\ HasReturned(t) => result[t] = Returned("json", Len(resps[t]))

\* C8 as amended: http_get, http_put and http_post return the parsed JSON
\* body of the final (non-retried) response; http_delete returns the final
\* response object itself, unparsed, and so do the delete methods.
C8_ReturnsJsonButDelete ==
    \A t \in Threads :
        InHelper(t) /\ HasReturned(t) =>
            /\ Last(resps[t]) # TooManyRequests
            /\ result[t].of = Len(resps[t])
            /\ args[t].verb \in SleepingVerbs => result[t].form = "json"
            /\ args[t].verb = "DELETE" => result[t].form = "response"

\* A delete method that returned the response object.
C8_Witness ==
    \E t \in Threads :
        /\ call[t].kind = "method" /\ call[t].method = "delete"
        /\ HasReturned(t)
        /\ result[t].form = "response"

\* ---------------------------------------------------------------- claim C9
\* C9 as stated: with two callers on one instance no interleaving leaves the
\* instance in a state no sequential order produces; in particular the
\* check-then-append never records an endpoint twice.
C9_NoEndpointRecordedTwice ==
    \A i, j \in DOMAIN allowed_endpoints :
        allowed_endpoints[i] = allowed_endpoints[j] => i = j

\* C9 as amended: allowed_endpoints is mutable state shared by the callers of
\* an instance and is not locked.  Each caller's scope-check outcome is still
\* the one a sequential order gives (it raises only when the token lacks a
\* required scope, it appends only when the token has them all, a cached
\* return finds the endpoint recorded), but two callers checking the same new
\* endpoint at once both append it: an endpoint is recorded at most once per
\* caller, so up to twice with two callers.
C9_OutcomesSequentialEntriesPerCaller ==
    /\ \A t \in Threads :
           /\ call[t].check = "raised" =>
                  Lacks(call[t].required) /\ result[t] = Raised("ValueError")
           /\ call[t].check = "approved" =>
                  ~Lacks(call[t].required) /\ Count(allowed_endpoints, call[t].endpoint) >= 1
           /\ call[t].check = "cached" => Count(allowed_endpoints, call[t].endpoint) >= 1
           /\ pc[t] = "check_eval" /\ ~Lacks(call[t].required) =>
                  Count(allowed_endpoints, call[t].endpoint) < Cardinality(Threads)
    /\ \A i \in DOMAIN allowed_endpoints :
           Count(allowed_endpoints, allowed_endpoints[i]) <= Cardinality(Threads)
    /\ Len(allowed_endpoints) <= ncalls

\* Two callers have both appended the same endpoint.
C9_Witness ==
    /\ Len(allowed_endpoints) = 2
    /\ allowed_endpoints[1] = allowed_endpoints[2]
    /\ \A t \in Threads : call[t].check = "approved"

\* --------------------------------------------------------------- claim C10
\* The safety half of C10: a call of one of the four helpers returns exactly when the server
\* answers one of its requests with a status other than 429: while every
\* answer so far is a 429 the call is still going (sending, waiting, handling
\* or sleeping), and after k 429 responses and one other response it has
\* issued k+1 requests and returns the result of the last one.
C10_ReturnsOnFirstNon429 ==
    \A t \in Threads :
        InHelper(t) =>
            /\ (\A i \in DOMAIN resps[t] : resps[t][i] = TooManyRequests) =>
                   /\ ~HasReturned(t)
                   /\ pc[t] \in {"send", "recv", "handle", "sleep", "done"}
                   /\ pc[t] = "done" => result[t] = Raised("RequestException")
            /\ (\E i \in DOMAIN resps[t] : resps[t][i] # TooManyRequests) =>
                   /\ pc[t] \in {"handle", "done"}
                   /\ Last(resps[t]) # TooManyRequests
                   /\ Count(resps[t], TooManyRequests) = Len(resps[t]) - 1
                   /\ Len(reqs[t]) = Count(resps[t], TooManyRequests) + 1
                   /\ pc[t] = "done" =>
                          /\ HasReturned(t)
                          /\ result[t].of = Len(reqs[t])

C11_Step ==
    /\ Len(allowed_endpoints') >= Len(allowed_endpoints)
    /\ SubSeq(allowed_endpoints', 1, Len(allowed_endpoints)) = allowed_endpoints
    /\ allowed_endpoints' # allowed_endpoints =>
           \E t \in Threads :
               /\ pc[t] = "check_eval"
               /\ call'[t].check = "approved"
               /\ allowed_endpoints' = Append(allowed_endpoints, call[t].endpoint)
               /\ Count(allowed_endpoints, call[t].endpoint) = 0
               /\ ~scopes.isNone
               /\ \A i \in DOMAIN call[t].required :
                      \E j \in DOMAIN scopes.list : scopes.list[j] = call[t].required[i]
    /\ \A t \in Threads :
           call[t].check = "none" /\ call'[t].check \in {"raised", "cached"} =>
               allowed_endpoints' = allowed_endpoints

\* C11: with check_scopes called by one caller at a time, allowed_endpoints
\* never holds an entry twice, never loses an entry, gains only endpoints
\* whose required scopes were all among the token's when they were added, and
\* is left unchanged by a check_scopes call that raises or that finds the
\* endpoint already present.
C11_AllowListInvariant ==
    /\ [](\A i \in DOMAIN allowed_endpoints :
              Count(allowed_endpoints, allowed_endpoints[i]) = 1)
    /\ [][C11_Step]_vars

\* A check_scopes call has found its endpoint in the list, which holds that
\* one entry, and has returned.
C11_Witness ==
    \E t \in Threads :
        /\ call[t].check = "cached"
        /\ HasReturned(t)
        /\ allowed_endpoints = <<call[t].endpoint>>

\* --------------------------------------------------------------- claim C12
\* The methods of the instance's class that call check_scopes.
CheckedMethods == {m \in MethodsOf(resource) : m.check}

\* C12: the allow-list is keyed by the endpoint template and not by the
\* resource ID: it holds at most one entry per method of the resource,
\* whatever IDs were passed, and a method call whose template was approved
\* before, with whatever ID, is served from the cache instead of being
\* approved again.
C12_KeyedByTemplate ==
    /\ Len(allowed_endpoints) <= Cardinality(CheckedMethods)
    /\ \A i, j \in DOMAIN allowed_endpoints :
           allowed_endpoints[i].key = allowed_endpoints[j].key => i = j
    /\ \A t \in Threads :
           call[t].kind = "method" /\ call[t].check = "approved" =>
               \A i \in DOMAIN allowed_endpoints :
                   allowed_endpoints[i].key = call[t].endpoint.key =>
                       allowed_endpoints[i] = call[t].endpoint

====
